---- MODULE Spec2Model ----
(***************************************************************************)
(* TeckoChecker polling engine: PollingService (app/services/polling.py),  *)
(* JobScheduler (app/services/scheduler.py), the PollingJob / JobBatch /   *)
(* PollingLog rows (app/models.py) and the management endpoints            *)
(* (app/api/jobs.py) that mutate the same rows.                            *)
(*                                                                         *)
(* Time is counted in seconds; the clock advances in steps of              *)
(* DEFAULT_SLEEP_SECONDS.  A null timestamp is Null.                       *)
(***************************************************************************)
EXTENDS Integers, Sequences, FiniteSets, TLC

\* ---------------------------------------------------------------- bounds
NumJobs == 2
MaxBatches == 2
MaxTime == 5
MaxTrigger == 2
MaxConcurrentChecks == 2
MaxClients == 2
MaxLimit == 2
MaxDays == 2

\* ------------------------------------------------------ program constants
MAX_RETRIES == 3
INITIAL_RETRY_DELAY == 1
MAX_RETRY_DELAY == 60
RETRY_MULTIPLIER == 2
DEFAULT_SLEEP_SECONDS == 5
ERROR_DELAY_SECONDS == 5
POLL_BATCH_SIZE == 50
MAX_SLEEP_SECONDS == 60
SECONDS_PER_DAY == 86400

Null == 0 - 1
TickSeconds == DEFAULT_SLEEP_SECONDS
PollIntervals == {TickSeconds, 2 * TickSeconds}

JobIds == 1..NumJobs
\* Secret rows: no more distinct credentials than jobs matter.
SecretIds == JobIds
BatchIdx == 1..MaxBatches

\* ------------------------------------------------------------ app/models.py
JOB_STATUSES ==
  {"active", "paused", "completed", "failed", "completed_with_failures"}

JobTerminalStatuses ==
  {"completed", "completed_with_failures", "failed"}

\* Statuses a status check can return (OpenAIBatchClient.VALID_STATUSES plus
\* the 'unknown' fallback of _parse_batch_response).
VALID_STATUSES ==
  {"validating", "failed", "in_progress", "finalizing", "completed",
   "expired", "cancelling", "cancelled"}

\* The check results explored by the engine specifications: the stored
\* status, another non-terminal one, and terminal ones of both kinds.
CheckStatuses ==
  {"in_progress", "finalizing", "completed", "failed", "cancelled"}

is_terminal(s) == s \in {"completed", "failed", "cancelled", "expired"}

is_completed(s) == s = "completed"

is_failed(s) == s \in {"failed", "cancelled", "expired"}

\* bs is the job's batches collection: a sequence of statuses or of rows.
StatusOf(bs) == [i \in DOMAIN bs |-> bs[i].status]

all_batches_terminal_some(st) == \E i \in DOMAIN st : is_terminal(st[i])

all_batches_terminal(st) ==
  IF Len(st) = 0 THEN FALSE ELSE \A i \in DOMAIN st : is_terminal(st[i])

completed_batches(st) == {i \in DOMAIN st : is_completed(st[i])}

failed_batches_only_failed(st) == {i \in DOMAIN st : st[i] = "failed"}

failed_batches(st) == {i \in DOMAIN st : is_failed(st[i])}

batches_to_check_all(st) == DOMAIN st

\* _process_single_job, line 163
batches_to_check(st) == {i \in DOMAIN st : ~is_terminal(st[i])}

batch_completion_summary(st) ==
  [total |-> Len(st),
   completed |-> Cardinality(completed_batches(st)),
   failed |-> Cardinality(failed_batches(st)),
   in_progress |-> Cardinality({i \in DOMAIN st : ~is_terminal(st[i])})]

\* ------------------------------------------------------------------- state
VARIABLES
  polling_jobs,   \* [JobIds -> row]: present, status, timestamps, interval
  job_batches,    \* [JobIds -> Seq(row)]: status, completed_at
  polling_logs,   \* [JobIds -> set of log status tags written for the job]
  now,            \* the clock
  loop,           \* position of polling_loop
  wake_at,        \* end of the current sleep
  task,           \* [JobIds -> position of the job's _process_single_job]
  snap,           \* [JobIds -> batch statuses of the job object fetched]
  chk,            \* [JobIds -> [BatchIdx -> state of _check_single_batch]]
  trigger_calls,  \* [JobIds -> number of KeboolaClient.trigger_job calls]
  trigger_params, \* [JobIds -> parameters of the last trigger_job call]
  trigger_result, \* [JobIds -> outcome of the last trigger_job call]
  ever_terminal,  \* [JobIds -> the job's status has been terminal]
  is_running,     \* PollingService._is_running
  shutdown_event, \* PollingService._shutdown_event is set
  openai_clients, \* [SecretIds -> 0 (no entry) or the number of the client]
  keboola_clients, \* [SecretIds -> 0 (no entry) or the number of the client]
  openai_created, \* [SecretIds -> OpenAIBatchClient objects made for the id]
  keboola_created, \* [SecretIds -> KeboolaClient objects made for the id]
  secret_of,      \* [JobIds -> the job's openai/keboola secret id]
  secrets,        \* secret ids whose value can be read and decrypted
  max_concurrent_checks, \* PollingService.max_concurrent_checks
  retry,          \* the retry loop of one check_batch_status / trigger_job call
  last_call,      \* the last management or JobScheduler call and its result
  schedule_calls, \* [JobIds -> schedule_next_check calls of the engine for
                  \*  the job in the current iteration]
  keboola_stack_url, \* [JobIds -> the job's keboola_stack_url]
  keboola_client_url, \* [SecretIds -> stack_url of the cached KeboolaClient]
  trigger_url     \* [JobIds -> stack URL the last trigger_job call went to]

dbVars == <<polling_jobs, job_batches, polling_logs>>
engineVars == <<loop, wake_at, task, snap, chk>>
callVars == <<trigger_calls, trigger_params, trigger_url>>
histVars == <<trigger_calls, trigger_params, trigger_url, trigger_result,
              ever_terminal>>
lifeVars == <<is_running, shutdown_event>>
oaiVars == <<openai_clients, openai_created>>
kebVars == <<keboola_clients, keboola_created, keboola_client_url>>
cacheVars == <<oaiVars, kebVars>>
secretVars == <<secret_of, secrets, keboola_stack_url>>
configVars == <<max_concurrent_checks>>
retryVars == <<retry>>
callLogVars == <<last_call>>
schedVars == <<schedule_calls>>
svcVars == <<lifeVars, cacheVars, secretVars, configVars, retryVars, callLogVars,
             schedVars>>
vars == <<polling_jobs, job_batches, polling_logs, now, loop, wake_at, task,
          snap, chk, trigger_calls, trigger_params, trigger_result,
          ever_terminal, is_running, shutdown_event, openai_clients,
          keboola_clients, openai_created, keboola_created, keboola_client_url, secret_of,
          secrets, max_concurrent_checks, retry, last_call, schedule_calls,
          keboola_stack_url, trigger_url>>

NoJob ==
  [present |-> FALSE, status |-> "deleted", completed_at |-> Null,
   last_check_at |-> Null, next_check_at |-> Null,
   poll_interval_seconds |-> TickSeconds]

NoParams ==
  [batch_ids_completed |-> {}, batch_ids_failed |-> {},
   batch_count_total |-> 0, batch_count_completed |-> 0,
   batch_count_failed |-> 0]

Present(j) == polling_jobs[j].present

Min2(a, b) == IF a <= b THEN a ELSE b

\* --------------------------------------------------- app/services/scheduler.py
DueJobsAnyStatus ==
  {j \in JobIds :
     /\ Present(j)
     /\ \/ polling_jobs[j].next_check_at = Null
        \/ polling_jobs[j].next_check_at <= now}

DueJobs ==
  {j \in JobIds :
     /\ Present(j)
     /\ polling_jobs[j].status = "active"
     /\ \/ polling_jobs[j].next_check_at = Null
        \/ polling_jobs[j].next_check_at <= now}

\* ORDER BY next_check_at ASC NULLS FIRST (Null sorts below every time).
RECURSIVE OrderByNextCheck(_)
OrderByNextCheck(S) ==
  IF S = {} THEN <<>>
  ELSE LET m == CHOOSE j \in S :
                  \A k \in S :
                    \/ polling_jobs[j].next_check_at < polling_jobs[k].next_check_at
                    \/ /\ polling_jobs[j].next_check_at = polling_jobs[k].next_check_at
                       /\ j <= k
       IN <<m>> \o OrderByNextCheck(S \ {m})

get_jobs_to_check(limit) ==
  LET all == OrderByNextCheck(DueJobs)
  IN IF limit # 0 /\ Len(all) > limit THEN SubSeq(all, 1, limit) ELSE all

schedule_next_check_no_interval(jobs, j) ==
  IF ~jobs[j].present THEN jobs
  ELSE [jobs EXCEPT ![j].last_check_at = now, ![j].next_check_at = now]

\* schedule_next_check(job_id): the rows after the call (a missing job or an
\* invalid interval raises and is swallowed by _reschedule_job).
schedule_next_check(jobs, j) ==
  IF ~jobs[j].present \/ jobs[j].poll_interval_seconds <= 0 THEN jobs
  ELSE [jobs EXCEPT ![j].last_check_at = now,
                    ![j].next_check_at = now + jobs[j].poll_interval_seconds]

get_next_schedule_time ==
  LET S == {j \in JobIds : /\ Present(j)
                           /\ polling_jobs[j].status = "active"
                           /\ polling_jobs[j].next_check_at # Null}
  IN IF S = {} THEN Null
     ELSE LET m == CHOOSE j \in S :
                     \A k \in S : polling_jobs[j].next_check_at
                                    <= polling_jobs[k].next_check_at
          IN polling_jobs[m].next_check_at

\* ---------------------------------------------------- app/services/polling.py
AddLogNoForeignKey(logs, jobs, j, tag) == [logs EXCEPT ![j] = @ \cup {tag}]

\* _log_status_check / _log_action / _log_error: one row with the given
\* status tag; the insert fails on the foreign key when the job is gone.
AddLog(logs, jobs, j, tag) ==
  IF jobs[j].present THEN [logs EXCEPT ![j] = @ \cup {tag}] ELSE logs

cache_hit_never(cache, s) == FALSE

\* _get_openai_client / _get_keboola_client: "if secret_id in self._clients"
cache_hit(cache, s) == cache[s] # 0

\* the cache after the lookup of secret s: on a miss a new client is made
\* and stored (it is numbered by the clients made for s so far)
get_client(cache, created, s) ==
  IF cache_hit(cache, s) THEN cache
  ELSE [cache EXCEPT ![s] = Min2(created[s] + 1, MaxClients)]

\* the number of clients made, after the lookup of secret s
count_client(cache, created, s) ==
  IF cache_hit(cache, s) THEN created
  ELSE [created EXCEPT ![s] = Min2(@ + 1, MaxClients)]

RECURSIVE SumOver(_, _)
SumOver(f, S) ==
  IF S = {} THEN 0
  ELSE LET x == CHOOSE y \in S : TRUE
       IN f[x] + SumOver(f, S \ {x})

\* network operations in flight: check_batch_status calls of the gather in
\* _process_single_job and trigger_job calls, over all jobs
in_flight ==
  SumOver([j \in JobIds |->
             Cardinality({i \in BatchIdx : chk[j][i] = "inflight"})
             + (IF task[j] \in {"trigger_recovery", "trigger_main"}
                THEN 1 ELSE 0)],
          JobIds)

TriggerParameters(st) ==
  [batch_ids_completed |-> completed_batches(st),
   batch_ids_failed |-> failed_batches(st),
   batch_count_total |-> Len(st),
   batch_count_completed |-> Cardinality(completed_batches(st)),
   batch_count_failed |-> Cardinality(failed_batches(st))]

Running == {j \in JobIds : task[j] \in {"checking", "trigger_recovery", "trigger_main"}}

semaphore_free_always == TRUE

\* _process_jobs_concurrent, lines 129-134: "async with semaphore" lets a
\* job in while fewer than max_concurrent_checks jobs hold a permit
semaphore_free == Cardinality(Running) < max_concurrent_checks

\* _calculate_sleep_duration: next_check_at is read back from the DateTime
\* column without tzinfo and subtracted from datetime.now(timezone.utc),
\* which raises TypeError; the loop's except branch then sleeps 5 s.
calculate_sleep_duration ==
  IF get_next_schedule_time = Null
  THEN [raised |-> FALSE, seconds |-> DEFAULT_SLEEP_SECONDS]
  ELSE [raised |-> TRUE, seconds |-> ERROR_DELAY_SECONDS]

GoToSleep ==
  LET d == calculate_sleep_duration
  IN /\ loop' = IF d.raised THEN "error_delay" ELSE "sleeping"
     /\ wake_at' = now + d.seconds

\* The rows at engine start: the jobs of P, created active and due by
\* create_job, each with 1..MaxBatches batches.  A batch is in_progress, or
\* already terminal when an earlier run of the engine was stopped between
\* the batch commit and the job commit.
InitRows(P, I, B) ==
  /\ now = 0
  /\ polling_jobs \in
       {f \in [JobIds -> {[present |-> TRUE, status |-> "active",
                           completed_at |-> Null, last_check_at |-> Null,
                           next_check_at |-> 0, poll_interval_seconds |-> p] :
                            p \in I} \cup {NoJob}] :
          \A j \in JobIds : f[j].present <=> j \in P}
  /\ job_batches \in
       {f \in [JobIds ->
                 UNION {[1..n -> {[status |-> s,
                                   completed_at |-> IF is_terminal(s) THEN 0 ELSE Null] :
                                     s \in B}] :
                          n \in 0..MaxBatches}] :
          \A j \in JobIds : Len(f[j]) = 0 <=> j \notin P}
  /\ polling_logs = [j \in JobIds |-> IF j \in P THEN {"created"} ELSE {}]
  /\ loop = "top"
  /\ wake_at = 0
  /\ task = [j \in JobIds |-> "none"]
  /\ snap = [j \in JobIds |-> <<>>]
  /\ chk = [j \in JobIds |-> [i \in BatchIdx |-> "none"]]
  /\ trigger_calls = [j \in JobIds |-> 0]
  /\ trigger_params = [j \in JobIds |-> NoParams]
  /\ trigger_result = [j \in JobIds |-> "none"]
  /\ ever_terminal = [j \in JobIds |-> FALSE]

\* no management or JobScheduler call has been made
NoLastCall ==
  [seq |-> 0, op |-> "none", job |-> 0, arg |-> Null, status |-> "none",
   error |-> "none", jobs |-> <<>>, value |-> Null]

\* no check_batch_status / trigger_job call is followed
NoCall ==
  [client |-> "none", pc |-> "idle", attempt |-> 0,
   retry_delay |-> INITIAL_RETRY_DELAY, waits |-> <<>>, outcomes |-> <<>>,
   last_exception |-> "none", raised |-> "none"]

\* PollingService.__init__ and the start of polling_loop (line 82)
InitServiceState ==
  /\ is_running = TRUE
  /\ shutdown_event = FALSE
  /\ openai_clients = [s \in SecretIds |-> 0]
  /\ keboola_clients = [s \in SecretIds |-> 0]
  /\ openai_created = [s \in SecretIds |-> 0]
  /\ keboola_created = [s \in SecretIds |-> 0]
  /\ retry = NoCall
  /\ last_call = NoLastCall
  /\ schedule_calls = [j \in JobIds |-> 0]

\* The stack URLs of the jobs (create_job stores keboola_stack_url); no
\* Keboola client exists and no trigger call has been made.
InitUrls(U) ==
  /\ keboola_stack_url \in [JobIds -> U]
  /\ keboola_client_url = [s \in SecretIds |-> "none"]
  /\ trigger_url = [j \in JobIds |-> "none"]

\* Every job is on the same Keboola stack.
InitService == InitServiceState /\ InitUrls({"stack_a"})

\* Every job uses secret 1, and every secret can be read and decrypted; with
\* one job the semaphore never blocks.
InitWith(P) ==
  /\ InitRows(P, PollIntervals, {"in_progress", "completed", "failed"})
  /\ InitService
  /\ secret_of = [j \in JobIds |-> 1]
  /\ secrets = SecretIds
  /\ max_concurrent_checks = 1

\* One job under the engine and the whole management surface.
Init == InitWith({1})

loop_continues_always == TRUE

loop_continues_never == FALSE

\* polling_loop, line 84: "while self._is_running"
loop_continues == is_running

\* polling_loop, lines 85-98 (and 100-106 when no job is due)
PollIteration ==
  /\ loop \in {"started", "top"}
  /\ loop_continues
  /\ LET jobs == get_jobs_to_check(POLL_BATCH_SIZE)
         S == {jobs[i] : i \in DOMAIN jobs}
     IN IF S # {}
        THEN /\ loop' = "processing"
             /\ task' = [j \in JobIds |-> IF j \in S THEN "queued" ELSE "none"]
             /\ snap' = [j \in JobIds |->
                           IF j \in S THEN StatusOf(job_batches[j]) ELSE <<>>]
             /\ UNCHANGED wake_at
        ELSE /\ GoToSleep
             /\ UNCHANGED <<task, snap>>
  /\ UNCHANGED <<dbVars, now, chk, histVars, svcVars>>

\* _get_keboola_client, lines 397-410: the stack_url of the client found
\* for secret s; a client made on a miss gets the stack URL url of the job
\* it is made for, a cached client keeps the one it was made with.
client_stack_url(s, url) ==
  IF cache_hit(keboola_clients, s) THEN keboola_client_url
  ELSE [keboola_client_url EXCEPT ![s] = url]

\* the engine has called scheduler.schedule_next_check (line 333) n more
\* times for job j
count_schedule(j, n) == [schedule_calls EXCEPT ![j] = @ + n]

\* keboola_client.trigger_job(...) is entered with the metadata of st; the
\* request goes to the stack_url of the client (KeboolaClient.trigger_job)
CallTrigger(j, st, pos) ==
  /\ keboola_clients' = get_client(keboola_clients, keboola_created, secret_of[j])
  /\ keboola_created' = count_client(keboola_clients, keboola_created, secret_of[j])
  /\ keboola_client_url' = client_stack_url(secret_of[j], keboola_stack_url[j])
  /\ trigger_url' = [trigger_url EXCEPT ![j] = keboola_client_url'[secret_of[j]]]
  /\ trigger_calls' = [trigger_calls EXCEPT ![j] = Min2(@ + 1, MaxTrigger)]
  /\ trigger_params' = [trigger_params EXCEPT ![j] = TriggerParameters(st)]
  /\ task' = [task EXCEPT ![j] = pos]
  /\ UNCHANGED <<trigger_result, ever_terminal>>

handle_job_error_no_reschedule(jobs, j) == jobs

\* _handle_job_error: _log_error, then _reschedule_job
handle_job_error(jobs, j) == schedule_next_check(jobs, j)

\* _process_single_job, lines 154-179 and 208-210: up to the first network
\* call.  The job object is the one fetched by get_jobs_to_check, so
\* job.status is "active" and job.batches are the statuses snap[j].
\* _get_openai_client runs first and has no suspension point; when the
\* secret cannot be read it raises, and the job's except branch logs the
\* error and reschedules.
ProcessSingleJob(j) ==
  /\ loop = "processing"
  /\ task[j] = "queued"
  /\ semaphore_free
  /\ IF ~cache_hit(openai_clients, secret_of[j]) /\ secret_of[j] \notin secrets
     THEN /\ polling_logs' = AddLog(polling_logs, polling_jobs, j, "error")
          /\ polling_jobs' = handle_job_error(polling_jobs, j)
          /\ schedule_calls' = count_schedule(j, 1)
          /\ task' = [task EXCEPT ![j] = "done"]
          /\ UNCHANGED <<job_batches, chk, histVars, cacheVars>>
     ELSE /\ openai_clients' =
               get_client(openai_clients, openai_created, secret_of[j])
          /\ openai_created' =
               count_client(openai_clients, openai_created, secret_of[j])
          /\ LET to_check == batches_to_check(snap[j])
             IN IF to_check = {}
                THEN /\ IF all_batches_terminal(snap[j])
                        THEN CallTrigger(j, snap[j], "trigger_recovery")
                        ELSE /\ task' = [task EXCEPT ![j] = "done"]
                             /\ UNCHANGED <<histVars, kebVars>>
                     /\ UNCHANGED chk
                ELSE /\ chk' = [chk EXCEPT ![j] =
                                  [i \in BatchIdx |->
                                     IF i \in to_check THEN "inflight" ELSE "none"]]
                     /\ task' = [task EXCEPT ![j] = "checking"]
                     /\ UNCHANGED <<histVars, kebVars>>
          /\ UNCHANGED <<dbVars, schedule_calls>>
  /\ UNCHANGED <<now, loop, wake_at, snap, lifeVars, secretVars, configVars,
                 retryVars, callLogVars>>

update_batch_skip(rows, i, new_status) == rows

update_batch_no_stamp(rows, i, new_status) ==
  IF i \in DOMAIN rows THEN [rows EXCEPT ![i].status = new_status] ELSE rows

\* _check_single_batch, lines 231-243: the write of a changed status (no
\* write when the row is gone)
update_batch(rows, i, new_status) ==
  IF i \in DOMAIN rows
  THEN [rows EXCEPT ![i] =
          [status |-> new_status,
           completed_at |-> IF is_terminal(new_status) THEN now
                            ELSE @.completed_at]]
  ELSE rows

\* _check_single_batch, lines 224-247: the status check returns res (or
\* raises: "error"); chk keeps what the check returned
CheckSingleBatch(j, i, res) ==
  /\ task[j] = "checking"
  /\ chk[j][i] = "inflight"
  /\ chk' = [chk EXCEPT ![j][i] = res]
  /\ IF res = "error"
     THEN /\ polling_logs' = AddLog(polling_logs, polling_jobs, j, "error")
          /\ UNCHANGED job_batches
     ELSE /\ IF res # snap[j][i]
             THEN job_batches' =
                    [job_batches EXCEPT ![j] = update_batch(@, i, res)]
             ELSE UNCHANGED job_batches
          /\ UNCHANGED polling_logs
  /\ UNCHANGED <<polling_jobs, now, loop, wake_at, task, snap, histVars, svcVars>>

\* _process_single_job, lines 181-206: after the gather of the checks
FinishChecks(j) ==
  /\ task[j] = "checking"
  /\ \A i \in BatchIdx : chk[j][i] # "inflight"
  /\ IF ~Present(j)
     THEN /\ task' = [task EXCEPT ![j] = "done"]
          /\ UNCHANGED <<dbVars, histVars, kebVars, schedule_calls>>
     ELSE /\ polling_logs' = AddLog(polling_logs, polling_jobs, j, "checking")
          /\ IF all_batches_terminal(StatusOf(job_batches[j]))
             THEN /\ CallTrigger(j, StatusOf(job_batches[j]), "trigger_main")
                  /\ UNCHANGED <<polling_jobs, schedule_calls>>
             ELSE /\ polling_jobs' = schedule_next_check(polling_jobs, j)
                  /\ schedule_calls' = count_schedule(j, 1)
                  /\ task' = [task EXCEPT ![j] = "done"]
                  /\ UNCHANGED <<histVars, kebVars>>
          /\ UNCHANGED job_batches
  /\ UNCHANGED <<now, loop, wake_at, snap, chk, oaiVars, lifeVars, secretVars,
                 configVars, retryVars, callLogVars>>

\* _trigger_keboola_with_results, lines 308-315: the except branch
MarkFailed(jobs, j) ==
  IF jobs[j].present
  THEN [jobs EXCEPT ![j].status = "failed", ![j].completed_at = now]
  ELSE jobs

\* _process_single_job, lines 201-203; the UPDATE of a deleted row raises
\* StaleDataError, and _handle_job_error then finds no job to touch.
MarkCompleted(jobs, j) ==
  IF jobs[j].present
  THEN [jobs EXCEPT ![j].status =
                      IF failed_batches(StatusOf(job_batches[j])) # {}
                      THEN "completed_with_failures" ELSE "completed",
                    ![j].completed_at = now]
  ELSE jobs

EverTerminal(jobs) ==
  [j \in JobIds |-> ever_terminal[j] \/ jobs[j].status \in JobTerminalStatuses]

\* _trigger_keboola_with_results, lines 286-315, and _process_single_job,
\* lines 201-203: the trigger_job call of job j returns (ok) or raises (~ok)
TriggerReturn(j, ok) ==
  /\ task[j] \in {"trigger_recovery", "trigger_main"}
  /\ LET afterTrigger ==
           IF ok THEN polling_jobs
           ELSE MarkFailed(handle_job_error(polling_jobs, j), j)
         after == IF task[j] = "trigger_main"
                  THEN MarkCompleted(afterTrigger, j)
                  ELSE afterTrigger
     IN /\ polling_jobs' = after
        /\ ever_terminal' = EverTerminal(after)
  /\ polling_logs' = AddLog(polling_logs, polling_jobs, j,
                            IF ok THEN "keboola_triggered" ELSE "error")
  /\ trigger_result' = [trigger_result EXCEPT ![j] = IF ok THEN "ok" ELSE "failed"]
  /\ schedule_calls' = count_schedule(j, IF ok THEN 0 ELSE 1)
  /\ task' = [task EXCEPT ![j] = "done"]
  /\ UNCHANGED <<job_batches, now, loop, wake_at, snap, chk, callVars, lifeVars,
                 cacheVars, secretVars, configVars, retryVars, callLogVars>>

\* polling_loop, lines 98-111: the gather of the jobs is over
EndProcessing ==
  /\ loop = "processing"
  /\ \A j \in JobIds : task[j] \in {"none", "done"}
  /\ GoToSleep
  /\ task' = [j \in JobIds |-> "none"]
  /\ snap' = [j \in JobIds |-> <<>>]
  /\ chk' = [j \in JobIds |-> [i \in BatchIdx |-> "none"]]
  /\ schedule_calls' = [j \in JobIds |-> 0]
  /\ UNCHANGED <<dbVars, now, histVars, lifeVars, cacheVars, secretVars,
                 configVars, retryVars, callLogVars>>

\* _interruptible_sleep times out / asyncio.sleep(5) returns
WakeUp ==
  /\ loop \in {"sleeping", "error_delay"}
  /\ \/ now >= wake_at
     \/ loop = "sleeping" /\ shutdown_event
  /\ loop' = "top"
  /\ UNCHANGED <<dbVars, now, wake_at, task, snap, chk, histVars, svcVars>>

\* polling_loop, lines 87-91 and 108-111: the session cannot be created or
\* the due-job query raises; the except branch sleeps 5 s
PollIterationRaises ==
  /\ loop \in {"started", "top"}
  /\ loop_continues
  /\ loop' = "error_delay"
  /\ wake_at' = now + ERROR_DELAY_SECONDS
  /\ UNCHANGED <<dbVars, now, task, snap, chk, histVars, svcVars>>

\* shutdown(), lines 597-603, called while the loop task is suspended
Shutdown ==
  /\ loop \in {"not_started", "processing", "sleeping", "error_delay"}
  /\ ~shutdown_event
  /\ is_running' = FALSE
  /\ shutdown_event' = TRUE
  /\ UNCHANGED <<dbVars, now, engineVars, histVars, cacheVars, secretVars,
                 configVars, retryVars, callLogVars, schedVars>>

\* _cleanup_clients, lines 574-575: clear()
cleanup_clients(cache) == [s \in SecretIds |-> 0]

\* polling_loop, lines 117-120 and _cleanup_clients, lines 567-575: the
\* finally block sets _is_running and enters the cleanup, which awaits the
\* close() of every cached OpenAI client before it clears both caches.
\* With no cached OpenAI client there is no await and the loop is over
\* (over); else the loop waits in the cleanup (waiting).
EnterCleanup(over, waiting) ==
  /\ is_running' = FALSE
  /\ IF \E s \in SecretIds : openai_clients[s] # 0
     THEN /\ loop' = waiting
          /\ UNCHANGED <<openai_clients, keboola_clients>>
     ELSE /\ loop' = over
          /\ openai_clients' = cleanup_clients(openai_clients)
          /\ keboola_clients' = cleanup_clients(keboola_clients)

\* polling_loop, line 84: the while test fails and the loop is left
ExitLoop ==
  /\ loop = "top"
  /\ ~loop_continues
  /\ EnterCleanup("stopped", "cleanup")
  /\ UNCHANGED <<dbVars, now, wake_at, task, snap, chk, histVars,
                 shutdown_event, openai_created, keboola_created, keboola_client_url,
                 secretVars, configVars, retryVars, callLogVars, schedVars>>

\* _cleanup_clients: the close() calls have returned
FinishCleanup ==
  /\ loop \in {"cleanup", "cleanup_cancelled"}
  /\ loop' = IF loop = "cleanup" THEN "stopped" ELSE "cancelled"
  /\ openai_clients' = cleanup_clients(openai_clients)
  /\ keboola_clients' = cleanup_clients(keboola_clients)
  /\ UNCHANGED <<dbVars, now, wake_at, task, snap, chk, histVars, lifeVars,
                 openai_created, keboola_created, keboola_client_url, secretVars, configVars, retryVars, callLogVars, schedVars>>

\* polling_task.cancel() (main.py, line 105), called once while the loop
\* task is suspended: CancelledError is raised at the await the task is
\* in, and the tasks of the gather are cancelled with it.  In the loop
\* body it reaches the finally block (lines 113-120); in the cleanup it
\* leaves _cleanup_clients before the caches are cleared.
CancelTask ==
  /\ loop \in {"processing", "sleeping", "error_delay", "cleanup"}
  /\ IF loop = "cleanup"
     THEN /\ loop' = "cancelled"
          /\ UNCHANGED <<is_running, openai_clients, keboola_clients>>
     ELSE EnterCleanup("cancelled", "cleanup_cancelled")
  /\ task' = [j \in JobIds |-> "none"]
  /\ snap' = [j \in JobIds |-> <<>>]
  /\ chk' = [j \in JobIds |-> [i \in BatchIdx |-> "none"]]
  /\ UNCHANGED <<dbVars, now, wake_at, histVars, shutdown_event,
                 openai_created, keboola_created, keboola_client_url, secretVars, configVars, retryVars, callLogVars, schedVars>>

Tick ==
  /\ now < MaxTime
  /\ now' = now + TickSeconds
  /\ UNCHANGED <<dbVars, engineVars, histVars, svcVars>>

\* ------------------------------------------------------------ app/api/jobs.py
ApiPauseJob(j) ==
  /\ Present(j)
  /\ polling_jobs[j].status = "active"
  /\ polling_jobs' = [polling_jobs EXCEPT ![j].status = "paused"]
  /\ polling_logs' = [polling_logs EXCEPT ![j] = @ \cup {"paused"}]
  /\ UNCHANGED <<job_batches, now, engineVars, histVars,
                 svcVars>>

ApiResumeJob(j) ==
  /\ Present(j)
  /\ polling_jobs[j].status = "paused"
  /\ polling_jobs' = [polling_jobs EXCEPT ![j].status = "active",
                                          ![j].next_check_at = now]
  /\ polling_logs' = [polling_logs EXCEPT ![j] = @ \cup {"resumed"}]
  /\ UNCHANGED <<job_batches, now, engineVars, histVars,
                 svcVars>>

ApiDeleteJob(j) ==
  /\ Present(j)
  /\ polling_jobs' = [polling_jobs EXCEPT ![j] = NoJob]
  /\ job_batches' = [job_batches EXCEPT ![j] = <<>>]
  /\ polling_logs' = [polling_logs EXCEPT ![j] = {}]
  /\ UNCHANGED <<now, engineVars, histVars, svcVars>>

\* ------------------------------------- JobScheduler called by an operator
\* update_job_status(job_id, status, completed_at): the rows after the call
\* (an invalid status or a missing job raises ValueError)
update_job_status(jobs, j, status, completed_at) ==
  IF status \notin {"active", "paused", "completed", "failed"} THEN jobs
  ELSE IF ~jobs[j].present THEN jobs
  ELSE LET c1 == IF completed_at # Null THEN completed_at
                 ELSE jobs[j].completed_at
           c2 == IF status \in {"completed", "failed"} /\ c1 = Null
                 THEN now ELSE c1
       IN [jobs EXCEPT ![j].status = status, ![j].completed_at = c2]

pause_job(jobs, j) == update_job_status(jobs, j, "paused", Null)

resume_job(jobs, j, reset_schedule) ==
  IF ~jobs[j].present THEN jobs
  ELSE [jobs EXCEPT ![j].status = "active",
                    ![j].next_check_at =
                      IF reset_schedule THEN now ELSE @]

\* completed_at is passed (as the current time) only with a terminal status
SchedulerUpdateJobStatus(j, status, stamp) ==
  /\ Present(j)
  /\ stamp => status \in {"completed", "failed"}
  /\ polling_jobs' = update_job_status(polling_jobs, j, status,
                                       IF stamp THEN now ELSE Null)
  /\ ever_terminal' = EverTerminal(polling_jobs')
  /\ UNCHANGED <<job_batches, polling_logs, now, engineVars, callVars,
                 trigger_result, svcVars>>

SchedulerPauseJob(j) ==
  /\ Present(j)
  /\ polling_jobs' = pause_job(polling_jobs, j)
  /\ UNCHANGED <<job_batches, polling_logs, now, engineVars, histVars,
                 svcVars>>

SchedulerResumeJob(j, reset_schedule) ==
  /\ Present(j)
  /\ polling_jobs' = resume_job(polling_jobs, j, reset_schedule)
  /\ UNCHANGED <<job_batches, polling_logs, now, engineVars, histVars,
                 svcVars>>

\* The engine with status checks that return a status of R or raise.
EngineWith(R) ==
  \/ PollIteration
  \/ \E j \in JobIds : ProcessSingleJob(j)
  \/ \E j \in JobIds, i \in BatchIdx, res \in R \cup {"error"} :
       CheckSingleBatch(j, i, res)
  \/ \E j \in JobIds : FinishChecks(j)
  \/ \E j \in JobIds, ok \in BOOLEAN : TriggerReturn(j, ok)
  \/ EndProcessing
  \/ WakeUp

Engine == EngineWith(CheckStatuses)

Management ==
  \/ \E j \in JobIds : ApiPauseJob(j)
  \/ \E j \in JobIds : ApiResumeJob(j)
  \/ \E j \in JobIds : ApiDeleteJob(j)

Scheduler ==
  \/ \E j \in JobIds, s \in JOB_STATUSES, stamp \in BOOLEAN :
       SchedulerUpdateJobStatus(j, s, stamp)
  \/ \E j \in JobIds : SchedulerPauseJob(j)
  \/ \E j \in JobIds, r \in BOOLEAN : SchedulerResumeJob(j, r)

Next == Engine \/ Management \/ Tick

Spec == Init /\ [][Next]_vars

\* The engine and the management surface, with the JobScheduler operations
\* update_job_status, pause_job and resume_job called from outside as well.
NextScheduler == Next \/ Scheduler

SpecScheduler == Init /\ [][NextScheduler]_vars

\* The clock without an upper end: when now has reached MaxTime the origin
\* of time moves up by one step, so every stored time moves down by one
\* step (times more than MaxTime in the past all read as 0).  Every
\* comparison of a stored time with now is preserved.
Shift(t) ==
  IF t = Null THEN Null
  ELSE IF t <= TickSeconds THEN 0 ELSE t - TickSeconds

Rebase ==
  /\ ~(now < MaxTime)
  /\ now' = Shift(now)
  /\ wake_at' = Shift(wake_at)
  /\ polling_jobs' =
       [j \in JobIds |->
          [polling_jobs[j] EXCEPT !.completed_at = Shift(@),
                                  !.last_check_at = Shift(@),
                                  !.next_check_at = Shift(@)]]
  /\ job_batches' =
       [j \in JobIds |->
          [i \in DOMAIN job_batches[j] |->
             [job_batches[j][i] EXCEPT !.completed_at = Shift(@)]]]
  /\ UNCHANGED <<polling_logs, loop, task, snap, chk, histVars, svcVars>>

NextLive == Next \/ Rebase

\* The event loop runs every task that can run and time passes (WF); a
\* status check that is repeated returns a terminal status at some point
\* and the trigger call succeeds at some point (SF).  The management
\* endpoints are called or not.
Fairness ==
  /\ WF_vars(PollIteration)
  /\ WF_vars(EndProcessing)
  /\ WF_vars(WakeUp)
  /\ WF_vars(Tick)
  /\ WF_vars(Rebase)
  /\ \A j \in JobIds :
       /\ WF_vars(ProcessSingleJob(j))
       /\ WF_vars(FinishChecks(j))
       /\ WF_vars(\E ok \in BOOLEAN : TriggerReturn(j, ok))
       /\ SF_vars(TriggerReturn(j, TRUE))
       /\ \A i \in BatchIdx :
            /\ WF_vars(\E res \in CheckStatuses \cup {"error"} :
                         CheckSingleBatch(j, i, res))
            /\ SF_vars(\E res \in {"completed", "failed", "cancelled"} :
                         CheckSingleBatch(j, i, res))

LiveSpec == Init /\ [][NextLive]_vars /\ Fairness

\* Several jobs in one engine: every job is fresh (batches in_progress,
\* due at once), a job uses secret 1 or a secret of its own, and secret 1
\* can be read or not.  No management calls.
JobCheckStatuses == {"in_progress", "completed"}

InitJobs ==
  /\ InitRows(JobIds, {TickSeconds}, {"in_progress"})
  /\ InitService
  /\ secret_of \in {f \in [JobIds -> SecretIds] :
                       \A j \in JobIds : f[j] \in {1, j}}
  /\ secrets \in {SecretIds, SecretIds \ {1}}
  /\ max_concurrent_checks \in 1..MaxConcurrentChecks

NextJobs == EngineWith(JobCheckStatuses) \/ Tick

\* The event loop runs every task that can run, and every network call
\* returns or raises.
FairnessJobs ==
  /\ WF_vars(PollIteration)
  /\ WF_vars(EndProcessing)
  /\ \A j \in JobIds :
       /\ WF_vars(ProcessSingleJob(j))
       /\ WF_vars(FinishChecks(j))
       /\ WF_vars(\E ok \in BOOLEAN : TriggerReturn(j, ok))
       /\ \A i \in BatchIdx :
            WF_vars(\E res \in JobCheckStatuses \cup {"error"} :
                      CheckSingleBatch(j, i, res))

SpecJobs == InitJobs /\ [][NextJobs]_vars /\ FairnessJobs

\* The life of the loop task: one fresh job, iterations that can fail,
\* shutdown() and the cancellation of the task.
InitLifecycle ==
  /\ InitRows({1}, {TickSeconds}, {"in_progress"})
  /\ InitService
  /\ secret_of = [j \in JobIds |-> 1]
  /\ secrets = SecretIds
  /\ max_concurrent_checks = 1

Lifecycle ==
  \/ PollIterationRaises
  \/ Shutdown
  \/ ExitLoop
  \/ FinishCleanup
  \/ CancelTask

NextLifecycle == EngineWith(JobCheckStatuses) \/ Tick \/ Rebase \/ Lifecycle

\* Fairness of the engine and the clock; once the while test has failed
\* the loop is left, and the close() calls of the cleanup return.
FairnessLifecycle ==
  /\ Fairness
  /\ WF_vars(ExitLoop)
  /\ WF_vars(FinishCleanup)

SpecLifecycle == InitLifecycle /\ [][NextLifecycle]_vars /\ FairnessLifecycle

\* ------------------------------------------------------- the retry loop
\* OpenAIBatchClient.check_batch_status and KeboolaClient.trigger_job run
\* the same loop; the record retry follows one call: attempt is the loop
\* index, outcomes the results of the attempts made, waits the sleeps done.
RetryClients == {"openai", "keboola"}

\* outcome of one attempt: success; rate limit (HTTP 429); connection
\* error; timeout; HTTP 5xx; HTTP 4xx other than 429; a response that the
\* client's parser rejects
Transient == {"rate_limit", "connection", "timeout", "server_error"}
AttemptOutcomes == {"ok", "client_error", "malformed"} \cup Transient

Min(a, b) == IF a <= b THEN a ELSE b

openai_outcome_retry_4xx(o) == IF o = "ok" THEN "return" ELSE "retry"

\* check_batch_status, lines 84-125: what the try block and the chain of
\* except clauses do with the outcome of an attempt
openai_outcome(o) ==
  CASE o = "ok" -> "return"
    [] o = "rate_limit" -> "retry"                \* except RateLimitError
    [] o \in {"connection", "timeout"} -> "retry" \* except APIConnectionError
    [] o = "client_error" -> "raise"              \* APIError, 4xx and not 429
    [] o = "server_error" -> "retry"              \* APIError, otherwise
    [] o = "malformed" -> "raise"   \* ValueError of _parse_batch_response

keboola_outcome_retry_all(o) == IF o = "ok" THEN "return" ELSE "retry"

\* trigger_job, lines 85-141
keboola_outcome(o) ==
  CASE o = "ok" -> "return"
    [] o = "client_error" -> "raise"    \* ClientResponseError, 4xx, not 429
    [] o \in {"rate_limit", "server_error"} -> "retry" \* ClientResponseError
    [] o = "connection" -> "retry"      \* except ClientConnectionError
    [] o = "timeout" -> "retry"         \* except asyncio.TimeoutError
    [] o = "malformed" -> "raise"       \* ValueError of _parse_job_response

attempt_outcome(c, o) ==
  IF c = "openai" THEN openai_outcome(o) ELSE keboola_outcome(o)

wait_before_retry_always(attempt) == TRUE

\* if attempt < self.MAX_RETRIES - 1
wait_before_retry(attempt) == attempt < MAX_RETRIES - 1

\* retry_delay = min(retry_delay * RETRY_MULTIPLIER, MAX_RETRY_DELAY)
next_retry_delay(d) == Min(d * RETRY_MULTIPLIER, MAX_RETRY_DELAY)

next_attempt_stop(r) ==
  [r EXCEPT !.attempt = @ + 1, !.pc = "raised", !.raised = r.last_exception]

\* for attempt in range(self.MAX_RETRIES): the next index, or the raise of
\* last_exception that follows the loop
next_attempt(r) ==
  IF r.attempt + 1 < MAX_RETRIES
  THEN [r EXCEPT !.attempt = @ + 1, !.pc = "attempt"]
  ELSE [r EXCEPT !.attempt = @ + 1, !.pc = "raised",
                 !.raised = r.last_exception]

\* the call starts: retry_delay = INITIAL_RETRY_DELAY, first loop index
start_call(c) == [NoCall EXCEPT !.client = c, !.pc = "attempt"]

\* one pass of the try block: return on success, re-raise at once what the
\* except clauses do not keep, otherwise remember the exception and go on
\* to the wait test
attempt_step(r, o) ==
  LET r1 == [r EXCEPT !.outcomes = Append(@, o)]
      h == attempt_outcome(r.client, o)
      r2 == [r1 EXCEPT !.last_exception = o]
  IN  IF h = "return" THEN [r1 EXCEPT !.pc = "returned"]
      ELSE IF h = "raise" THEN [r1 EXCEPT !.pc = "raised", !.raised = o]
      ELSE IF wait_before_retry(r.attempt) THEN [r2 EXCEPT !.pc = "sleep"]
      ELSE next_attempt(r2)

\* await asyncio.sleep(retry_delay), then the backoff and the next index
sleep_step(r) ==
  next_attempt([r EXCEPT !.waits = Append(@, r.retry_delay),
                         !.retry_delay = next_retry_delay(@)])

StartCall(c) ==
  /\ retry.pc \in {"idle", "returned", "raised"}
  /\ retry' = start_call(c)
  /\ UNCHANGED <<dbVars, now, engineVars, histVars, lifeVars, cacheVars,
                 secretVars, configVars, callLogVars, schedVars>>

Attempt(o) ==
  /\ retry.pc = "attempt"
  /\ retry' = attempt_step(retry, o)
  /\ UNCHANGED <<dbVars, now, engineVars, histVars, lifeVars, cacheVars,
                 secretVars, configVars, callLogVars, schedVars>>

RetrySleep ==
  /\ retry.pc = "sleep"
  /\ retry' = sleep_step(retry)
  /\ UNCHANGED <<dbVars, now, engineVars, histVars, lifeVars, cacheVars,
                 secretVars, configVars, callLogVars, schedVars>>

\* the whole call of client c when its attempts have the outcomes os, in
\* order, as far as os goes
RECURSIVE run_call(_, _)
run_call(r, os) ==
  IF r.pc = "sleep" THEN run_call(sleep_step(r), os)
  ELSE IF r.pc = "attempt" /\ os # <<>>
       THEN run_call(attempt_step(r, Head(os)), Tail(os))
       ELSE r

\* no job in the table: only the client calls are followed
InitRetry ==
  /\ InitRows({}, {TickSeconds}, {"in_progress"})
  /\ InitService
  /\ secret_of = [j \in JobIds |-> 1]
  /\ secrets = SecretIds
  /\ max_concurrent_checks = 1

NextRetry ==
  \/ \E c \in RetryClients : StartCall(c)
  \/ \E o \in AttemptOutcomes : Attempt(o)
  \/ RetrySleep

SpecRetry == InitRetry /\ [][NextRetry]_vars
\* ------------------------------------- calls observed with their results
\* The management operations of app/api/jobs.py and the operations of
\* JobScheduler, called one at a time; last_call keeps the arguments and
\* the result of the last call, and seq changes with every call.
NextSeq == 1 - last_call.seq

\* the limits passed to get_jobs_to_check
Limits == 0..MaxLimit

\* the overrides passed to schedule_next_check (Null: no argument)
Overrides == {Null, 0 - TickSeconds, 0, TickSeconds, 2 * TickSeconds}

\* the statuses passed to update_job_status
StatusArgs == JOB_STATUSES \cup {"cancelled"}

\* schedule_next_check, line 109: poll_interval_seconds if
\* poll_interval_seconds else job.poll_interval_seconds
resolved_interval(jobs, j, override) ==
  IF override # Null /\ override # 0 THEN override
  ELSE jobs[j].poll_interval_seconds

\* schedule_next_check, lines 104-112: the ValueError raised, if any
schedule_next_check_error(jobs, j, override) ==
  IF ~jobs[j].present THEN "ValueError"
  ELSE IF resolved_interval(jobs, j, override) <= 0 THEN "ValueError"
  ELSE "none"

\* schedule_next_check, lines 114-121: the rows after the call
schedule_next_check_override(jobs, j, override) ==
  IF schedule_next_check_error(jobs, j, override) # "none" THEN jobs
  ELSE [jobs EXCEPT ![j].last_check_at = now,
                    ![j].next_check_at =
                      now + resolved_interval(jobs, j, override)]

\* update_job_status, lines 153-162: the ValueError raised, if any
update_job_status_error(jobs, j, status) ==
  IF status \notin {"active", "paused", "completed", "failed"}
  THEN "ValueError"
  ELSE IF ~jobs[j].present THEN "ValueError"
  ELSE "none"

api_pause_error_none(jobs, j) == "none"

\* pause_job of app/api/jobs.py, lines 381-394
api_pause_error(jobs, j) ==
  IF ~jobs[j].present THEN "404"
  ELSE IF jobs[j].status # "active" THEN "409"
  ELSE "none"

\* resume_job of app/api/jobs.py, lines 438-451
api_resume_error(jobs, j) ==
  IF ~jobs[j].present THEN "404"
  ELSE IF jobs[j].status # "paused" THEN "409"
  ELSE "none"

CallGetJobsToCheck(limit) ==
  /\ last_call' = [NoLastCall EXCEPT !.seq = NextSeq,
                                     !.op = "get_jobs_to_check",
                                     !.arg = limit,
                                     !.jobs = get_jobs_to_check(limit)]
  /\ UNCHANGED <<dbVars, now, engineVars, histVars, lifeVars, cacheVars,
                 secretVars, configVars, retryVars, schedVars>>

CallScheduleNextCheck(j, override) ==
  /\ polling_jobs' = schedule_next_check_override(polling_jobs, j, override)
  /\ last_call' =
       [NoLastCall EXCEPT
          !.seq = NextSeq, !.op = "schedule_next_check", !.job = j,
          !.arg = override,
          !.error = schedule_next_check_error(polling_jobs, j, override),
          !.value = IF schedule_next_check_error(polling_jobs, j, override)
                       = "none"
                    THEN polling_jobs'[j].next_check_at ELSE Null]
  /\ UNCHANGED <<job_batches, polling_logs, now, engineVars, histVars,
                 lifeVars, cacheVars, secretVars, configVars, retryVars, schedVars>>

CallUpdateJobStatus(j, status, completed_at) ==
  /\ polling_jobs' = update_job_status(polling_jobs, j, status, completed_at)
  /\ ever_terminal' = EverTerminal(polling_jobs')
  /\ last_call' =
       [NoLastCall EXCEPT
          !.seq = NextSeq, !.op = "update_job_status", !.job = j,
          !.arg = completed_at, !.status = status,
          !.error = update_job_status_error(polling_jobs, j, status)]
  /\ UNCHANGED <<job_batches, polling_logs, now, engineVars, callVars,
                 trigger_result, lifeVars, cacheVars, secretVars,
                 configVars, retryVars, schedVars>>

\* pause_job of app/api/jobs.py: 404, 409, or the update and its log row
CallApiPauseJob(j) ==
  /\ IF api_pause_error(polling_jobs, j) = "none"
     THEN /\ polling_jobs' = [polling_jobs EXCEPT ![j].status = "paused"]
          /\ polling_logs' = [polling_logs EXCEPT ![j] = @ \cup {"paused"}]
     ELSE UNCHANGED <<polling_jobs, polling_logs>>
  /\ last_call' = [NoLastCall EXCEPT
                     !.seq = NextSeq, !.op = "pause_job", !.job = j,
                     !.error = api_pause_error(polling_jobs, j)]
  /\ UNCHANGED <<job_batches, now, engineVars, histVars, lifeVars,
                 cacheVars, secretVars, configVars, retryVars, schedVars>>

\* resume_job of app/api/jobs.py: 404, 409, or the update and its log row
CallApiResumeJob(j) ==
  /\ IF api_resume_error(polling_jobs, j) = "none"
     THEN /\ polling_jobs' = [polling_jobs EXCEPT ![j].status = "active",
                                                  ![j].next_check_at = now]
          /\ polling_logs' = [polling_logs EXCEPT ![j] = @ \cup {"resumed"}]
     ELSE UNCHANGED <<polling_jobs, polling_logs>>
  /\ last_call' = [NoLastCall EXCEPT
                     !.seq = NextSeq, !.op = "resume_job", !.job = j,
                     !.error = api_resume_error(polling_jobs, j)]
  /\ UNCHANGED <<job_batches, now, engineVars, histVars, lifeVars,
                 cacheVars, secretVars, configVars, retryVars, schedVars>>

\* The engine is not running; the jobs of P exist, the other ids are free.
InitCallsWith(P) ==
  /\ InitRows(P, {TickSeconds}, {"in_progress"})
  /\ InitService
  /\ secret_of = [j \in JobIds |-> 1]
  /\ secrets = SecretIds
  /\ max_concurrent_checks = 1

\* One job, and calls on it and on ids that do not exist.
InitCalls == InitCallsWith({1})

NextCalls ==
  \/ \E j \in JobIds, o \in Overrides : CallScheduleNextCheck(j, o)
  \/ \E j \in JobIds, s \in StatusArgs, c \in {Null, now} :
       CallUpdateJobStatus(j, s, c)
  \/ \E j \in JobIds : CallApiPauseJob(j)
  \/ \E j \in JobIds : CallApiResumeJob(j)
  \/ Tick

SpecCalls == InitCalls /\ [][NextCalls]_vars

\* Every job exists; the jobs are paused, resumed and rescheduled, and
\* the due jobs are fetched.
InitDue == InitCallsWith(JobIds)

NextDue ==
  \/ \E limit \in Limits : CallGetJobsToCheck(limit)
  \/ \E j \in JobIds, o \in {Null, 2 * TickSeconds} :
       CallScheduleNextCheck(j, o)
  \/ \E j \in JobIds : CallApiPauseJob(j)
  \/ \E j \in JobIds : CallApiResumeJob(j)
  \/ Tick

SpecDue == InitDue /\ [][NextDue]_vars

\* ----------------------------------------------- JobScheduler.cleanup_old_jobs
\* the retention periods passed to cleanup_old_jobs, in days
Days == 0..MaxDays

\* timedelta(days=days_old), line 331
cutoff_date(days_old) == now - days_old * SECONDS_PER_DAY

\* cleanup_old_jobs, lines 333-338: the rows matched by the filter (a null
\* completed_at compares as unknown and does not match)
purged(jobs, days_old) ==
  {j \in JobIds :
     /\ jobs[j].present
     /\ jobs[j].status \in {"completed", "failed"}
     /\ jobs[j].completed_at # Null
     /\ jobs[j].completed_at < cutoff_date(days_old)}

\* cleanup_old_jobs, lines 333-344: the bulk DELETE, which the foreign keys
\* (ON DELETE CASCADE) extend to the batches and logs of the deleted jobs;
\* the call returns the number of job rows deleted
CallCleanupOldJobs(days_old) ==
  LET D == purged(polling_jobs, days_old)
  IN /\ polling_jobs' = [j \in JobIds |-> IF j \in D THEN NoJob ELSE polling_jobs[j]]
     /\ job_batches' = [j \in JobIds |-> IF j \in D THEN <<>> ELSE job_batches[j]]
     /\ polling_logs' = [j \in JobIds |-> IF j \in D THEN {} ELSE polling_logs[j]]
     /\ last_call' = [NoLastCall EXCEPT !.seq = NextSeq,
                                        !.op = "cleanup_old_jobs",
                                        !.arg = days_old,
                                        !.value = Cardinality(D)]
     /\ UNCHANGED <<now, engineVars, histVars, lifeVars, cacheVars,
                    secretVars, configVars, retryVars, schedVars>>

\* The table at a housekeeping run, MaxDays days after the oldest job ended:
\* every job is in one of the five statuses; a terminal job ended a whole
\* number of days ago (0..MaxDays), an active or paused job has no
\* completed_at.  Each job has one batch, terminal like the job, and the
\* engine is not running.
InitPurge ==
  /\ now = MaxDays * SECONDS_PER_DAY
  /\ polling_jobs \in
       [JobIds ->
          {[present |-> TRUE, status |-> s, completed_at |-> c,
            last_check_at |-> IF s \in JobTerminalStatuses THEN c ELSE Null,
            next_check_at |-> 0, poll_interval_seconds |-> TickSeconds] :
              s \in JOB_STATUSES,
              c \in {Null} \cup {k * SECONDS_PER_DAY : k \in 0..MaxDays}}
          \cup {NoJob}]
  /\ \A j \in JobIds :
       Present(j) =>
         (polling_jobs[j].completed_at # Null
            <=> polling_jobs[j].status \in JobTerminalStatuses)
  /\ job_batches =
       [j \in JobIds |->
          IF ~Present(j) THEN <<>>
          ELSE <<[status |-> IF polling_jobs[j].status = "completed"
                             THEN "completed"
                             ELSE IF polling_jobs[j].status \in JobTerminalStatuses
                             THEN "failed" ELSE "in_progress",
                  completed_at |-> polling_jobs[j].completed_at]>>]
  /\ polling_logs = [j \in JobIds |-> IF Present(j) THEN {"created"} ELSE {}]
  /\ loop = "top"
  /\ wake_at = 0
  /\ task = [j \in JobIds |-> "none"]
  /\ snap = [j \in JobIds |-> <<>>]
  /\ chk = [j \in JobIds |-> [i \in BatchIdx |-> "none"]]
  /\ trigger_calls = [j \in JobIds |-> 0]
  /\ trigger_params = [j \in JobIds |-> NoParams]
  /\ trigger_result = [j \in JobIds |-> "none"]
  /\ ever_terminal = [j \in JobIds |-> Present(j) /\ polling_jobs[j].status \in JobTerminalStatuses]
  /\ InitService
  /\ secret_of = [j \in JobIds |-> 1]
  /\ secrets = SecretIds
  /\ max_concurrent_checks = 1

NextPurge == \E days_old \in Days : CallCleanupOldJobs(days_old)

SpecPurge == InitPurge /\ [][NextPurge]_vars

\* ------------------------------------------- every status a check can return
\* _parse_batch_response, lines 156-161: the lower-cased status of the
\* response is returned whether or not it is in VALID_STATUSES, and is
\* 'unknown' when the response has no status.
ParsedStatuses == VALID_STATUSES \cup {"unknown"}

NextStatus == EngineWith(ParsedStatuses) \/ Tick

\* One job under the engine, with status checks that return any status.
SpecStatus == Init /\ [][NextStatus]_vars

\* ------------------------------------------------ a failing database write
\* _trigger_keboola_with_results, lines 302-315, and _process_single_job,
\* lines 208-210: trigger_job raises, _handle_job_error logs the error and
\* reschedules, and then the session that marks the job failed raises (the
\* database is locked or unreachable).  Nothing catches that in the except
\* branch, so it leaves _trigger_keboola_with_results and reaches the
\* except branch of _process_single_job, which calls _handle_job_error
\* again; the job is not marked failed and lines 201-203 are skipped.
TriggerMarkFailedRaises(j) ==
  /\ task[j] \in {"trigger_recovery", "trigger_main"}
  /\ polling_jobs' = handle_job_error(handle_job_error(polling_jobs, j), j)
  /\ polling_logs' = AddLog(polling_logs, polling_jobs, j, "error")
  /\ trigger_result' = [trigger_result EXCEPT ![j] = "failed"]
  /\ schedule_calls' = count_schedule(j, 2)
  /\ task' = [task EXCEPT ![j] = "done"]
  /\ UNCHANGED <<job_batches, now, loop, wake_at, snap, chk, callVars,
                 ever_terminal, lifeVars, cacheVars, secretVars, configVars,
                 retryVars, callLogVars>>

NextFaults == Next \/ \E j \in JobIds : TriggerMarkFailedRaises(j)

\* One job under the engine and the management surface, with trigger calls
\* after which the database write of the failure can fail.
SpecFaults == Init /\ [][NextFaults]_vars

\* ------------------------------------------------ jobs on different stacks
StackUrls == {"stack_a", "stack_b"}

\* Two fresh jobs, each on one of two Keboola stacks and with the shared
\* Keboola credential 1 or a credential of its own.
InitStacks ==
  /\ InitRows(JobIds, {TickSeconds}, {"in_progress"})
  /\ InitServiceState
  /\ InitUrls(StackUrls)
  /\ secret_of \in {f \in [JobIds -> SecretIds] :
                       \A j \in JobIds : f[j] \in {1, j}}
  /\ secrets = SecretIds
  /\ max_concurrent_checks = MaxConcurrentChecks

SpecStacks == InitStacks /\ [][NextJobs]_vars

\* -------------------------------------------------- the start of the loop
\* polling_loop, line 82: the loop task begins to run and sets _is_running,
\* whatever shutdown() has set before
StartLoop ==
  /\ loop = "not_started"
  /\ is_running' = TRUE
  /\ loop' = "started"
  /\ UNCHANGED <<dbVars, now, wake_at, task, snap, chk, histVars,
                 shutdown_event, cacheVars, secretVars, configVars, retryVars,
                 callLogVars, schedVars>>

\* PollingService.__init__, lines 56-57: the service is constructed and the
\* loop task is created (main.py, line 91) but has not begun to run; one
\* fresh job is in the table.
InitStart ==
  /\ now = 0
  /\ polling_jobs =
       [j \in JobIds |->
          IF j = 1
          THEN [present |-> TRUE, status |-> "active", completed_at |-> Null,
                last_check_at |-> Null, next_check_at |-> 0,
                poll_interval_seconds |-> TickSeconds]
          ELSE NoJob]
  /\ job_batches \in
       {f \in [JobIds ->
                 UNION {[1..n -> {[status |-> "in_progress",
                                   completed_at |-> Null]}] :
                          n \in 0..MaxBatches}] :
          \A j \in JobIds : Len(f[j]) = 0 <=> j # 1}
  /\ polling_logs = [j \in JobIds |-> IF j = 1 THEN {"created"} ELSE {}]
  /\ loop = "not_started"
  /\ wake_at = 0
  /\ task = [j \in JobIds |-> "none"]
  /\ snap = [j \in JobIds |-> <<>>]
  /\ chk = [j \in JobIds |-> [i \in BatchIdx |-> "none"]]
  /\ trigger_calls = [j \in JobIds |-> 0]
  /\ trigger_params = [j \in JobIds |-> NoParams]
  /\ trigger_result = [j \in JobIds |-> "none"]
  /\ ever_terminal = [j \in JobIds |-> FALSE]
  /\ is_running = FALSE
  /\ shutdown_event = FALSE
  /\ openai_clients = [s \in SecretIds |-> 0]
  /\ keboola_clients = [s \in SecretIds |-> 0]
  /\ openai_created = [s \in SecretIds |-> 0]
  /\ keboola_created = [s \in SecretIds |-> 0]
  /\ retry = NoCall
  /\ last_call = NoLastCall
  /\ schedule_calls = [j \in JobIds |-> 0]
  /\ InitUrls({"stack_a"})
  /\ secret_of = [j \in JobIds |-> 1]
  /\ secrets = SecretIds
  /\ max_concurrent_checks = 1

NextStart == NextLifecycle \/ StartLoop

\* The life of the loop task from its creation: shutdown() can be called
\* before the task has begun to run.
SpecStart ==
  InitStart /\ [][NextStart]_vars /\ FairnessLifecycle /\ WF_vars(StartLoop)

\* ------------------------------------------------------------------ claims
InTrigger(j) == task[j] \in {"trigger_recovery", "trigger_main"}

\* C1: over the job's lifetime KeboolaClient.trigger_job is called at most
\* once for every job, also for a job that starts an iteration active with
\* all of its batches already terminal.
C1_TriggerAtMostOnce == \A j \in JobIds : trigger_calls[j] <= 1

\* C2: while a trigger call for a job of the store is in progress the job
\* has at least one batch and every one of its batch rows is terminal.
C2_TriggerOnlyWhenAllTerminal ==
  \A j \in JobIds :
    (InTrigger(j) /\ Present(j)) =>
      /\ Len(job_batches[j]) >= 1
      /\ \A i \in DOMAIN job_batches[j] :
           job_batches[j][i].status \in
             {"completed", "failed", "cancelled", "expired"}

C2_Witness ==
  /\ task[1] = "trigger_main"
  /\ Present(1)
  /\ Len(job_batches[1]) = 2
  /\ job_batches[1][1].completed_at # job_batches[1][2].completed_at

\* C3: after a trigger call of a job has failed, the job's status is failed
\* with completed_at set, an error log row exists, and no further trigger
\* call is made for the job.
C3_TriggerFailureFailsJob ==
  \A j \in JobIds :
    (trigger_result[j] = "failed" /\ Present(j)) =>
      /\ polling_jobs[j].status = "failed"
      /\ polling_jobs[j].completed_at # Null
      /\ "error" \in polling_logs[j]
      /\ ~InTrigger(j)

\* C4: after a trigger call of a job has succeeded, the job's status is
\* completed when none of its batches is failed, cancelled or expired and
\* completed_with_failures otherwise, and completed_at is set.
C4_FailureClassification ==
  \A j \in JobIds :
    (trigger_result[j] = "ok" /\ Present(j) /\ ~InTrigger(j)) =>
      /\ polling_jobs[j].status =
           IF \E i \in DOMAIN job_batches[j] :
                job_batches[j][i].status \in {"failed", "cancelled", "expired"}
           THEN "completed_with_failures" ELSE "completed"
      /\ polling_jobs[j].completed_at # Null

\* C5: under the fairness of LiveSpec every job is at some point paused or
\* deleted, or one of its trigger calls fails, or it has been triggered and
\* is completed or completed_with_failures: an active job that is never
\* paused or deleted and whose trigger calls succeed reaches a successful
\* terminal status.
C5_EventualCompletion ==
  \A j \in JobIds :
    <>(\/ ~Present(j)
       \/ polling_jobs[j].status = "paused"
       \/ trigger_result[j] = "failed"
       \/ /\ trigger_calls[j] >= 1
          /\ polling_jobs[j].status \in {"completed", "completed_with_failures"})

\* C6: the parameters of a trigger call list exactly the completed batches
\* and exactly the failed, cancelled or expired ones, the two lists are
\* disjoint and cover the job's batches, and the counts add up.
C6_TriggerMetadata ==
  \A j \in JobIds :
    (trigger_calls[j] > 0 /\ Present(j)) =>
      LET p == trigger_params[j]
          rows == job_batches[j]
      IN /\ p.batch_ids_completed =
              {i \in DOMAIN rows : rows[i].status = "completed"}
         /\ p.batch_ids_failed =
              {i \in DOMAIN rows :
                 rows[i].status \in {"failed", "cancelled", "expired"}}
         /\ p.batch_ids_completed \cap p.batch_ids_failed = {}
         /\ p.batch_ids_completed \cup p.batch_ids_failed = DOMAIN rows
         /\ p.batch_count_completed = Cardinality(p.batch_ids_completed)
         /\ p.batch_count_failed = Cardinality(p.batch_ids_failed)
         /\ p.batch_count_total = p.batch_count_completed + p.batch_count_failed
         /\ p.batch_count_total = Len(rows)

C6_Witness ==
  /\ InTrigger(1)
  /\ Present(1)
  /\ trigger_params[1].batch_count_completed = 1
  /\ trigger_params[1].batch_count_failed = 1
  /\ \E i \in DOMAIN job_batches[1] : job_batches[1][i].status = "cancelled"

\* C7: a cycle whose checks leave a batch of the job non-terminal calls no
\* trigger, leaves the job's status as it is (an active job stays active)
\* with completed_at null, and sets last_check_at = now and
\* next_check_at = now + poll_interval_seconds.
C7_PartialProgress ==
  [][\A j \in JobIds :
       (/\ task[j] = "checking"
        /\ task'[j] # "checking"
        /\ Present(j)
        /\ \E i \in DOMAIN job_batches[j] :
             job_batches[j][i].status \notin
               {"completed", "failed", "cancelled", "expired"})
       => /\ task'[j] = "done"
          /\ trigger_calls'[j] = trigger_calls[j]
          /\ polling_jobs'[j].present
          /\ polling_jobs'[j].status = polling_jobs[j].status
          /\ polling_jobs'[j].status \in {"active", "paused"}
          /\ polling_jobs'[j].completed_at = Null
          /\ polling_jobs'[j].last_check_at = now
          /\ polling_jobs'[j].next_check_at =
               now + polling_jobs[j].poll_interval_seconds]_vars

C7_Witness ==
  /\ task[1] = "done"
  /\ Present(1)
  /\ polling_jobs[1].status = "active"
  /\ polling_jobs[1].last_check_at = now
  /\ polling_jobs[1].next_check_at = now + polling_jobs[1].poll_interval_seconds
  /\ trigger_calls[1] = 0
  /\ Len(job_batches[1]) = 2
  /\ job_batches[1][1].status = "completed"
  /\ job_batches[1][2].status = "in_progress"

\* C8: a job's completed_at is set exactly when its status is completed,
\* completed_with_failures or failed.
C8_JobTimestampInvariant ==
  \A j \in JobIds :
    Present(j) =>
      (polling_jobs[j].completed_at # Null
         <=> polling_jobs[j].status \in
               {"completed", "completed_with_failures", "failed"})

\* C9: a job whose status has been completed, completed_with_failures or
\* failed is not returned by get_jobs_to_check any more.
C9_TerminalJobNeverDue ==
  \A j \in JobIds :
    (ever_terminal[j] /\ Present(j)) =>
      ~(/\ polling_jobs[j].status = "active"
        /\ \/ polling_jobs[j].next_check_at = Null
           \/ polling_jobs[j].next_check_at <= now)

\* C11: when the status check of a batch of a job fails, an error log row
\* is written for the job and the batch row keeps its status and its
\* completed_at; and while the checks of a cycle are collected every batch
\* whose check returned a status has that status in its row, whatever
\* happened to its siblings.
C11_BatchCheckIsolation ==
  [][\A j \in JobIds :
       (polling_jobs'[j].present /\ task'[j] = "checking") =>
         \A i \in DOMAIN job_batches'[j] :
           /\ (chk[j][i] = "inflight" /\ chk'[j][i] = "error") =>
                /\ job_batches'[j][i] = job_batches[j][i]
                /\ "error" \in polling_logs'[j]
           /\ chk'[j][i] \notin {"none", "inflight", "error"} =>
                job_batches'[j][i].status = chk'[j][i]]_vars

C11_Witness ==
  /\ task[1] = "checking"
  /\ Present(1)
  /\ Len(job_batches[1]) = 2
  /\ chk[1][1] = "error"
  /\ chk[1][2] = "completed"
  /\ job_batches[1][1].status = "in_progress"
  /\ job_batches[1][2].status = "completed"
  /\ "error" \in polling_logs[1]

\* C12: in every state a batch row's completed_at is set exactly when its
\* status is terminal, and a check that returns a status other than the
\* stored one writes that status, with completed_at = now in the same
\* write when the status is terminal.
C12_BatchTimestampInvariant ==
  [][\A j \in JobIds : \A i \in DOMAIN job_batches'[j] :
       /\ i \in DOMAIN job_batches[j] =>
            (job_batches[j][i].completed_at # Null
               <=> job_batches[j][i].status \in
                     {"completed", "failed", "cancelled", "expired"})
       /\ job_batches'[j][i].completed_at # Null
            <=> job_batches'[j][i].status \in
                  {"completed", "failed", "cancelled", "expired"}
       /\ (/\ chk[j][i] = "inflight"
           /\ chk'[j][i] \notin {"inflight", "error"}
           /\ i \in DOMAIN job_batches[j]
           /\ chk'[j][i] # job_batches[j][i].status) =>
            /\ job_batches'[j][i].status = chk'[j][i]
            /\ chk'[j][i] \in {"completed", "failed", "cancelled", "expired"}
                 => job_batches'[j][i].completed_at = now]_vars

C12_Witness ==
  /\ Present(1)
  /\ now > 0
  /\ Len(job_batches[1]) = 2
  /\ job_batches[1][1] = [status |-> "cancelled", completed_at |-> now]
  /\ job_batches[1][2] = [status |-> "finalizing", completed_at |-> Null]

\* C13: the number of network operations in flight (status checks and
\* trigger calls of all jobs) is at most max_concurrent_checks.
C13_GlobalConcurrencyBound == in_flight <= max_concurrent_checks

\* C14: the number of jobs inside _process_single_job is at most
\* max_concurrent_checks, and every job waiting for a permit is processed
\* to its end.
C14_JobConcurrencyBound ==
  /\ [](Cardinality({j \in JobIds :
                       task[j] \in {"checking", "trigger_recovery",
                                    "trigger_main"}})
          <= max_concurrent_checks)
  /\ \A j \in JobIds : (task[j] = "queued") ~> (task[j] = "done")

C14_Witness ==
  /\ max_concurrent_checks = 1
  /\ task[1] = "done"
  /\ task[2] = "checking"

\* C15: when the processing of a job raises because its secret cannot be
\* read, the iteration goes on, an error log row is written for the job,
\* the job stays active and is rescheduled to now + poll_interval_seconds,
\* and no other job is touched; when the iteration ends every fetched job
\* has been processed to its end, checked or terminal unless it raised.
C15_JobBoundaryIsolation ==
  [][/\ \A j \in JobIds :
          (/\ task[j] = "queued"
           /\ task'[j] # "queued"
           /\ secret_of[j] \notin secrets) =>
            /\ task'[j] = "done"
            /\ loop' = "processing"
            /\ "error" \in polling_logs'[j]
            /\ polling_jobs'[j].status = "active"
            /\ polling_jobs'[j].next_check_at =
                 now + polling_jobs[j].poll_interval_seconds
            /\ \A k \in JobIds \ {j} :
                 /\ task'[k] = task[k]
                 /\ polling_jobs'[k] = polling_jobs[k]
                 /\ job_batches'[k] = job_batches[k]
                 /\ polling_logs'[k] = polling_logs[k]
     /\ (loop = "processing" /\ loop' # "processing") =>
          \A k \in JobIds :
            task[k] # "none" =>
              /\ task[k] = "done"
              /\ secret_of[k] \in secrets =>
                   \/ polling_jobs[k].last_check_at # Null
                   \/ polling_jobs[k].status \in
                        {"completed", "completed_with_failures", "failed"}]_vars

C15_Witness ==
  /\ secret_of[1] \notin secrets
  /\ secret_of[2] \in secrets
  /\ loop = "processing"
  /\ task[1] = "done"
  /\ "error" \in polling_logs[1]
  /\ polling_jobs[1].next_check_at = now + polling_jobs[1].poll_interval_seconds
  /\ task[2] = "done"
  /\ polling_jobs[2].status = "completed"
  /\ trigger_result[2] = "ok"

\* C16: once shutdown() has been called the idle sleep can end at once, no
\* due-job fetch starts any more, the loop is left at some point, and once
\* it is left it stays left with is_running false.
C16_GracefulShutdown ==
  /\ [](shutdown_event /\ loop = "sleeping" => ENABLED WakeUp)
  /\ [][shutdown_event =>
          ~(/\ loop = "top"
            /\ loop' \in {"processing", "sleeping", "error_delay"})]_vars
  /\ shutdown_event ~> (loop \in {"stopped", "cancelled"})
  /\ [](loop \in {"stopped", "cancelled"} => ~is_running)
  /\ [][(loop \in {"stopped", "cancelled"}) => loop' = loop]_vars

C16_Witness ==
  /\ shutdown_event
  /\ loop = "stopped"
  /\ now < wake_at

\* C17: when polling_loop has been left, by shutdown() or by the
\* cancellation of its task, both client caches are empty and is_running is
\* false.
C17_CleanupOnExit ==
  (loop \in {"stopped", "cancelled"}) =>
    /\ ~is_running
    /\ \A s \in SecretIds : openai_clients[s] = 0 /\ keboola_clients[s] = 0

\* C18: an exception in an iteration does not end the loop: the loop is
\* left only after shutdown() or by cancellation; the error delay lasts
\* 5 s and is followed by the top of the loop, where a new iteration
\* begins as long as shutdown has not been requested.
C18_IterationFailureDoesNotHalt ==
  /\ [][(loop' \in {"stopped", "cleanup"}) => shutdown_event]_vars
  /\ [][(loop # "error_delay" /\ loop' = "error_delay") =>
          wake_at' = now + 5]_vars
  /\ [][loop = "error_delay" =>
          \/ loop' = "error_delay"
          \/ loop' = "top" /\ now >= wake_at
          \/ loop' \in {"cancelled", "cleanup_cancelled"}]_vars
  /\ [][(loop = "top" /\ ~shutdown_event) =>
          loop' \in {"top", "processing", "sleeping", "error_delay"}]_vars
  /\ (loop = "error_delay" /\ ~shutdown_event)
       ~> \/ loop = "top"
          \/ shutdown_event
          \/ loop \in {"cancelled", "cleanup_cancelled"}

C18_Witness ==
  /\ loop = "processing"
  /\ task[1] = "queued"
  /\ ~shutdown_event
  /\ Present(1)
  /\ polling_jobs[1].last_check_at = Null
  /\ wake_at = ERROR_DELAY_SECONDS
  /\ now = wake_at

\* C19: for every secret id at most one OpenAI client and at most one
\* Keboola client is ever made, and a cache entry, once there, is not
\* replaced by another client (it can only be dropped by the cleanup).
C19_ClientCache ==
  [][\A s \in SecretIds :
       /\ openai_created'[s] <= 1
       /\ keboola_created'[s] <= 1
       /\ openai_clients[s] # 0 => openai_clients'[s] \in {openai_clients[s], 0}
       /\ keboola_clients[s] # 0 =>
            keboola_clients'[s] \in {keboola_clients[s], 0}]_vars

C19_Witness ==
  /\ secret_of[1] = secret_of[2]
  /\ task[1] = "checking"
  /\ task[2] = "trigger_main"
  /\ openai_created[secret_of[1]] = 1
  /\ keboola_created[secret_of[1]] = 1
  /\ now > 0

\* C10: a batch row whose status is terminal keeps its status and its
\* completed_at, and no status check is issued for it.
C10_TerminalBatchImmutable ==
  [][\A j \in JobIds : \A i \in DOMAIN job_batches[j] :
       job_batches[j][i].status \in {"completed", "failed", "cancelled", "expired"}
       => /\ chk'[j][i] # "inflight"
          /\ polling_jobs'[j].present => job_batches'[j][i] = job_batches[j][i]]_vars

C10_Witness ==
  /\ Present(1)
  /\ Len(job_batches[1]) = 2
  /\ job_batches[1][1].status = "failed"
  /\ job_batches[1][1].completed_at = 0
  /\ now > 0
  /\ polling_jobs[1].last_check_at = 0
  /\ chk[1][2] = "inflight"

\* C20: every call of check_batch_status and trigger_job makes at most 3
\* attempts, makes no attempt after a successful one and returns exactly
\* when the last attempt made succeeded, sleeps 1 s after the first failed
\* attempt and 2 s after the second (min(2^(k-1), 60) after attempt k), and
\* does not sleep after the last attempt.
C20_RetryBoundAndBackoff ==
  /\ Len(retry.outcomes) <= 3
  /\ \A k \in 1..(Len(retry.outcomes) - 1) : retry.outcomes[k] # "ok"
  /\ retry.pc = "returned" <=>
       (retry.outcomes # <<>> /\ retry.outcomes[Len(retry.outcomes)] = "ok")
  /\ Len(retry.waits) <= 2
  /\ retry.waits = SubSeq(<<1, 2>>, 1, Len(retry.waits))
  /\ retry.pc = "attempt" => Len(retry.waits) = Len(retry.outcomes)
  /\ retry.pc \in {"returned", "raised"} =>
       Len(retry.waits) = Len(retry.outcomes) - 1

C20_Witness ==
  /\ retry.client = "keboola"
  /\ retry.pc = "raised"
  /\ retry.outcomes = <<"rate_limit", "connection", "server_error">>
  /\ retry.waits = <<1, 2>>

\* C21: an attempt of check_batch_status or trigger_job that fails with a
\* permanent error (HTTP 4xx other than 429) is the last attempt of its
\* call: the call raises that error at once, with no wait after it.
C21_PermanentNotRetried ==
  \A k \in DOMAIN retry.outcomes :
    retry.outcomes[k] = "client_error" =>
      /\ k = Len(retry.outcomes)
      /\ retry.pc = "raised"
      /\ retry.raised = "client_error"
      /\ Len(retry.waits) = k - 1

C21_Witness ==
  /\ retry.client = "openai"
  /\ retry.outcomes = <<"timeout", "client_error">>
  /\ retry.pc = "raised"
  /\ retry.waits = <<1>>

\* C22: a call of check_batch_status or trigger_job whose attempts all fail
\* with transient errors ends only after exactly 3 attempts, and ends by
\* raising the error of the third attempt.
C22_TransientRetriedToExhaustion ==
  (/\ retry.pc \in {"returned", "raised"}
   /\ \A k \in DOMAIN retry.outcomes : retry.outcomes[k] \in Transient) =>
    /\ retry.pc = "raised"
    /\ Len(retry.outcomes) = 3
    /\ retry.raised = retry.outcomes[3]

C22_Witness ==
  /\ retry.client = "openai"
  /\ retry.pc = "raised"
  /\ retry.outcomes = <<"timeout", "rate_limit", "server_error">>
  /\ retry.raised = "server_error"

\* C23: given the same outcomes of the attempts, check_batch_status and
\* trigger_job make the same number of attempts, sleep the same waits and
\* end the same way (return, or raise the same error).
C23_OneRetryPolicy ==
  retry.pc # "idle" =>
    LET other == IF retry.client = "openai" THEN "keboola" ELSE "openai"
        mine == run_call(retry, <<>>)
        theirs == run_call(start_call(other), retry.outcomes)
    IN  /\ theirs.outcomes = mine.outcomes
        /\ theirs.waits = mine.waits
        /\ theirs.pc = mine.pc
        /\ theirs.raised = mine.raised

C23_Witness ==
  /\ retry.client = "openai"
  /\ retry.pc = "raised"
  /\ retry.outcomes = <<"connection", "malformed">>
  /\ retry.waits = <<1>>

\* C24: a call get_jobs_to_check(limit) returns only jobs that are active
\* and due (next_check_at null or <= now), without repetition, in ascending
\* order of next_check_at with null first, at most limit of them, leaving
\* out a due job only when limit jobs that sort no later are returned, and
\* changes no job, batch or log row.
C24_GetJobsToCheck ==
  [][(last_call'.seq # last_call.seq /\ last_call'.op = "get_jobs_to_check") =>
       LET r == last_call'.jobs
           limit == last_call'.arg
           at(j) == polling_jobs[j].next_check_at
           due(j) == /\ polling_jobs[j].present
                     /\ polling_jobs[j].status = "active"
                     /\ (at(j) = Null \/ at(j) <= now)
           returned == {r[k] : k \in DOMAIN r}
       IN  /\ \A k \in DOMAIN r : due(r[k])
           /\ \A k1, k2 \in DOMAIN r :
                k1 < k2 => (r[k1] # r[k2] /\ at(r[k1]) <= at(r[k2]))
           /\ Len(r) <= limit
           /\ \A j \in JobIds :
                (due(j) /\ j \notin returned) =>
                  (Len(r) = limit /\ \A k \in DOMAIN r : at(r[k]) <= at(j))
           /\ UNCHANGED dbVars]_vars

\* C25: a call schedule_next_check(job_id, override) raises and changes no
\* job when the job does not exist or when the resolved interval (the
\* override if one is passed, else the job's poll_interval_seconds) is
\* <= 0; otherwise it sets last_check_at = now and next_check_at = now +
\* resolved interval on that job only and returns the new next_check_at.
C25_ScheduleNextCheck ==
  [][(last_call'.seq # last_call.seq /\ last_call'.op = "schedule_next_check") =>
       LET j == last_call'.job
           o == last_call'.arg
           resolved == IF o # Null THEN o
                       ELSE polling_jobs[j].poll_interval_seconds
       IN  IF ~polling_jobs[j].present \/ resolved <= 0
           THEN /\ last_call'.error = "ValueError"
                /\ polling_jobs' = polling_jobs
           ELSE /\ last_call'.error = "none"
                /\ polling_jobs' =
                     [polling_jobs EXCEPT ![j].last_check_at = now,
                                          ![j].next_check_at = now + resolved]
                /\ last_call'.value = now + resolved]_vars

\* C26: a call of update_job_status on an existing job with one of the five
\* job statuses is accepted and stores that status; with any other status
\* value it raises a validation error and leaves the jobs unchanged.
C26_UpdateJobStatusValidation ==
  [][(last_call'.seq # last_call.seq /\ last_call'.op = "update_job_status") =>
       LET j == last_call'.job
           status == last_call'.status
       IN  IF status \in {"active", "paused", "completed",
                          "completed_with_failures", "failed"}
           THEN polling_jobs[j].present =>
                  /\ last_call'.error = "none"
                  /\ polling_jobs'[j].status = status
           ELSE /\ last_call'.error = "ValueError"
                /\ polling_jobs' = polling_jobs]_vars

\* C27: an accepted call of update_job_status sets completed_at to now when
\* the new status is terminal and completed_at was unset, and leaves a
\* completed_at that was set as it was, with or without a completed_at
\* argument.
C27_UpdateJobStatusCompletedAt ==
  [][(/\ last_call'.seq # last_call.seq
      /\ last_call'.op = "update_job_status"
      /\ last_call'.error = "none") =>
       LET j == last_call'.job
           status == last_call'.status
           before == polling_jobs[j].completed_at
           after == polling_jobs'[j].completed_at
       IN  /\ (status \in JobTerminalStatuses /\ before = Null) => after = now
           /\ before # Null => after = before]_vars

C29_IllegalTransitionsRejected ==
  /\ [][(/\ last_call'.seq # last_call.seq
         /\ last_call'.op = "pause_job"
         /\ polling_jobs[last_call'.job].present
         /\ polling_jobs[last_call'.job].status # "active") =>
          /\ last_call'.error = "409"
          /\ polling_jobs' = polling_jobs
          /\ polling_logs' = polling_logs]_vars
  /\ [][(/\ last_call'.seq # last_call.seq
         /\ last_call'.op = "resume_job"
         /\ polling_jobs[last_call'.job].present
         /\ polling_jobs[last_call'.job].status # "paused") =>
          /\ last_call'.error = "409"
          /\ polling_jobs' = polling_jobs
          /\ polling_logs' = polling_logs]_vars

C29_Witness ==
  /\ last_call.op = "pause_job"
  /\ last_call.job = 1
  /\ last_call.error = "409"
  /\ polling_jobs[1].status = "completed"

\* C30: every batch row and every log row belongs to a job that exists:
\* a deleted job has no batch and no log, also after an engine cycle that
\* was processing the job when it was deleted has finished its steps.
C30_NoOrphans ==
  \A j \in JobIds :
    ~polling_jobs[j].present =>
      (job_batches[j] = <<>> /\ polling_logs[j] = {})

C30_Witness ==
  /\ ~polling_jobs[1].present
  /\ task[1] = "done"
  /\ snap[1] # <<>>
  /\ \E i \in DOMAIN snap[1] : chk[1][i] = "completed"

\* C31: _calculate_sleep_duration returns the default 5 s when no active job
\* has a non-null next_check_at, and otherwise max(0, min(d - now, 60)) with
\* d the earliest next_check_at of the active jobs: every step in which the
\* loop sizes its sleep enters the sleep with that duration.
C31_SleepSizing ==
  [][((loop = "processing" /\ loop' \in {"sleeping", "error_delay"})
        \/ (loop = "top" /\ loop' = "sleeping"))
       => LET d == get_next_schedule_time
              until == IF d - now <= MAX_SLEEP_SECONDS
                       THEN d - now ELSE MAX_SLEEP_SECONDS
              expected == IF d = Null THEN DEFAULT_SLEEP_SECONDS
                          ELSE IF until <= 0 THEN 0 ELSE until
          IN /\ loop' = "sleeping"
             /\ wake_at' = now + expected]_vars

\* C32: cleanup_old_jobs(days) deletes exactly the jobs whose status is
\* terminal (completed, completed_with_failures or failed) and whose
\* completed_at is older than now - days, leaves every other job with its
\* batches and logs unchanged, and returns the number of jobs deleted.
C32_CleanupOldJobs ==
  [][(last_call'.seq # last_call.seq /\ last_call'.op = "cleanup_old_jobs")
       => LET days_old == last_call'.arg
              old == {j \in JobIds :
                        /\ Present(j)
                        /\ polling_jobs[j].status \in JobTerminalStatuses
                        /\ polling_jobs[j].completed_at
                             < now - days_old * SECONDS_PER_DAY}
          IN /\ \A j \in old : ~polling_jobs'[j].present
             /\ \A j \in JobIds \ old :
                  /\ polling_jobs'[j] = polling_jobs[j]
                  /\ job_batches'[j] = job_batches[j]
                  /\ polling_logs'[j] = polling_logs[j]
             /\ last_call'.value = Cardinality(old)]_vars

\* C33: recovery case.  When the engine processes an active job all of
\* whose batches are already terminal it starts no status check and enters
\* the trigger call, and when that trigger call succeeds the job is left
\* completed (no failed batch) or completed_with_failures (otherwise) with
\* completed_at set.
C33_RecoveryCompletes ==
  [][\A j \in JobIds :
       /\ (task[j] = "queued" /\ task'[j] # "queued"
           /\ task'[j] # "none"
           /\ ~(~cache_hit(openai_clients, secret_of[j])
                /\ secret_of[j] \notin secrets)
           /\ all_batches_terminal(snap[j]))
            => /\ task'[j] = "trigger_recovery"
               /\ \A i \in BatchIdx : chk'[j][i] # "inflight"
       /\ (task[j] = "trigger_recovery" /\ task'[j] = "done"
           /\ trigger_result'[j] = "ok" /\ polling_jobs'[j].present)
            => /\ polling_jobs'[j].status =
                    IF failed_batches(StatusOf(job_batches[j])) # {}
                    THEN "completed_with_failures" ELSE "completed"
               /\ polling_jobs'[j].completed_at # Null]_vars

\* C34: batch counts partition the batches: for every job and every
\* combination of batch statuses, batch_completion_summary satisfies
\* completed + failed + in_progress = total.
C34_SummaryPartition ==
  \A j \in JobIds :
    LET summary == batch_completion_summary(StatusOf(job_batches[j]))
    IN /\ summary.total = Len(job_batches[j])
       /\ summary.completed + summary.failed + summary.in_progress
            = summary.total

\* a job with a batch that counts as failed without being 'failed' and a
\* batch in a non-terminal status other than in_progress
C34_Witness ==
  \E j \in JobIds :
    /\ Present(j)
    /\ \E i \in DOMAIN job_batches[j] :
         job_batches[j][i].status \in {"cancelled", "expired"}
    /\ \E i \in DOMAIN job_batches[j] :
         job_batches[j][i].status \in {"validating", "finalizing", "cancelling"}

\* C36: in every reachable state each batch's persisted status is one of
\* in_progress, validating, finalizing, completed, failed, cancelled,
\* expired, whatever status the status check returns.
C36_BatchStatusDomain ==
  \A j \in JobIds :
    \A i \in DOMAIN job_batches[j] :
      job_batches[j][i].status \in
        {"in_progress", "validating", "finalizing", "completed", "failed",
         "cancelled", "expired"}

\* C35: no double scheduling: within one polling iteration
\* schedule_next_check is executed at most once for each job, whatever the
\* outcome of the job's processing.
C35_NoDoubleScheduling == \A j \in JobIds : schedule_calls[j] <= 1

\* C37: a pause is not lost.  While a job is paused and an engine cycle on
\* it is in flight, no trigger call is entered for the job, and no step of
\* the cycle takes the job out of status paused (only a resume or a delete
\* of the management surface does).
C37_PauseNotLost ==
  [][\A j \in JobIds :
       (Present(j) /\ polling_jobs[j].status = "paused" /\ task[j] # "none")
         => /\ ~(~InTrigger(j) /\ task'[j] \in {"trigger_recovery", "trigger_main"})
            /\ \/ ~polling_jobs'[j].present
               \/ polling_jobs'[j].status = "paused"
               \/ /\ polling_jobs'[j].status = "active"
                  /\ "resumed" \in polling_logs'[j]]_vars

\* C38: every trigger call made for a job is sent to that job's own
\* keboola_stack_url, also when another job with the same Keboola
\* credential id and a different stack URL was triggered before.
C38_TriggerTarget ==
  \A j \in JobIds :
    trigger_url[j] # "none" => trigger_url[j] = keboola_stack_url[j]

\* C39: a shutdown requested before the loop starts is not lost: once
\* shutdown() has been called, also before polling_loop began to run, the
\* loop does not start another iteration after the one it is in or begins
\* with, and is_running is false when polling_loop has returned.
C39_EarlyShutdownNotLost ==
  [][/\ (shutdown_event /\ loop = "top")
          => loop' \notin {"processing", "sleeping", "error_delay"}
     /\ loop' \in {"stopped", "cancelled"} => ~is_running']_vars

\* C40: no busy re-polling: every job fetched by get_jobs_to_check in an
\* iteration is no longer due when the processing of that iteration ends:
\* it is terminal or paused, or its next_check_at is later than now, or it
\* was deleted.
C40_NoBusyRepolling ==
  [][(loop = "processing" /\ loop' \in {"sleeping", "error_delay"})
       => \A j \in JobIds :
            task[j] # "none"
              => \/ ~polling_jobs'[j].present
                 \/ polling_jobs'[j].status \in JobTerminalStatuses \cup {"paused"}
                 \/ polling_jobs'[j].next_check_at > now']_vars
====
